---- MODULE Spec2Model ----
(***************************************************************************)
(* A state-machine model of mon_app.py ("Le Portionneur"), a Streamlit     *)
(* script.  Every user interaction re-executes the script from the top:    *)
(* init_state, the sidebar, then the eight tabs in order.  One action of   *)
(* this module is one such interaction: the handler of the widget the      *)
(* user touched followed by the rest of the script run (and, where the     *)
(* handler ends with st.rerun(), the run that follows).                    *)
(*                                                                         *)
(* Representation.  Python dicts are functions (the empty dict is <<>>),   *)
(* lists are sequences.  Calories, gram weights and calorie targets are    *)
(* integers, as the widgets that produce them are integer widgets.  Macro  *)
(* amounts and body weights are Python floats; they are modelled as exact  *)
(* rationals [num, den] in lowest terms.  Dates ("%Y-%m-%d" strings, which *)
(* sort chronologically) are day numbers.  The "heure" field of a journal  *)
(* entry (wall-clock time of the click) is left out.                       *)
(***************************************************************************)
EXTENDS Integers, Sequences, FiniteSets, TLC

VARIABLES
    cloud,        \* the six cells A1 of the spreadsheet "ProjetPoids_DB"
    recettes,     \* st.session_state["recettes"]
    plats_vides,  \* st.session_state["plats"]
    planning,     \* st.session_state["planning"]
    journal,      \* st.session_state["journal"]
    poids_data,   \* st.session_state["poids"]
    pantry,       \* st.session_state["garde_manger"]
    ti,           \* st.session_state.ti : the recipe builder's draft lines
    lm,           \* st.session_state.lm : mode the draft was seeded for
    lt,           \* st.session_state.lt : recipe the draft was seeded from
    md,           \* the radio "Mode" (key "rm") of the recipes tab
    tg,           \* the selectbox "Recette" (key "rt"); None when not shown
    today,        \* get_today_str(), as a day number
    out           \* what the last interaction computed and displayed

vars == <<cloud, recettes, plats_vides, planning, journal, poids_data,
          pantry, ti, lm, lt, md, tg, today, out>>

\* ------------------------------------------------------------------------
\* Bounds of the model
\* ------------------------------------------------------------------------
MaxLines == 2

MaxJournal == 1

MaxDay == 2

MaxPlanDays == 3

MaxFetchFailures == 1

\* ------------------------------------------------------------------------
\* Python values
\* ------------------------------------------------------------------------
EmptyDict == <<>>

None == "(None)"

RECURSIVE GCD(_, _)
GCD(a, b) == IF b = 0 THEN a ELSE GCD(b, a % b)

Abs(n) == IF n < 0 THEN -n ELSE n

\* a float, as the exact rational n/d (d # 0) in lowest terms
Rat(n, d) ==
    LET g == GCD(Abs(n), Abs(d))
        s == IF d < 0 THEN -1 ELSE 1
    IN  [num |-> (s * n) \div g, den |-> (s * d) \div g]

RInt(n) == [num |-> n, den |-> 1]

RZero == RInt(0)

RAdd(a, b) == Rat(a.num * b.den + b.num * a.den, a.den * b.den)

RSub(a, b) == Rat(a.num * b.den - b.num * a.den, a.den * b.den)

RMul(a, b) == Rat(a.num * b.num, a.den * b.den)

\* a / b for b # 0 (Python raises ZeroDivisionError otherwise)
RDiv(a, b) == Rat(a.num * b.den, a.den * b.num)

RPos(a) == a.num > 0

\* int(x): truncation toward zero
PyInt(a) == IF a.num >= 0 THEN a.num \div a.den ELSE -((-a.num) \div a.den)

\* d.get(k, default)
Get(d, k, default) == IF k \in DOMAIN d THEN d[k] ELSE default

\* d[k] = v on a dict
Put(d, k, v) == [x \in DOMAIN d \cup {k} |-> IF x = k THEN v ELSE d[x]]

\* del d[k]
Del(d, k) == [x \in DOMAIN d \ {k} |-> d[x]]

\* list.pop(i), 1-based here
Pop(s, i) == [j \in 1..(Len(s) - 1) |-> IF j < i THEN s[j] ELSE s[j + 1]]

\* ------------------------------------------------------------------------
\* Strings.  A name is a TLA+ string; Chars gives its characters, so that
\* lower() and the substring test of detect_rayon can be computed.
\* Accented letters are written e_acute, e_grave, a_circ.
\* ------------------------------------------------------------------------
Chars(nom) ==
    CASE nom = "Pates (Cru)" -> <<"P", "a_circ", "t", "e", "s", " ", "(", "C", "r", "u", ")">>
      [] nom = "Riz (Cru)" -> <<"R", "i", "z", " ", "(", "C", "r", "u", ")">>
      [] nom = "Poulet" -> <<"P", "o", "u", "l", "e", "t">>
      [] nom = "Oeuf" -> <<"O", "e", "u", "f">>
      [] nom = "Huile" -> <<"H", "u", "i", "l", "e">>
      [] nom = "Poulet fermier" -> <<"P", "o", "u", "l", "e", "t", " ", "f", "e", "r", "m", "i", "e", "r">>
      [] nom = "Widget" -> <<"W", "i", "d", "g", "e", "t">>
      [] nom = "Boeuf hache" -> <<"B", "o", "e", "u", "f", " ", "h", "a", "c", "h", "e_acute">>
      [] nom = "Riz au lait" -> <<"R", "i", "z", " ", "a", "u", " ", "l", "a", "i", "t">>
      [] nom = "LEGUMES" -> <<"L", "E_acute", "G", "U", "M", "E", "S">>

UpperCase ==
    <<"A", "B", "C", "D", "E", "F", "G", "H", "I", "J", "K", "L", "M", "N", "O", "P", "Q", "R", "S", "T", "U", "V", "W", "X", "Y", "Z", "E_acute", "E_grave", "A_circ">>

LowerCase ==
    <<"a", "b", "c", "d", "e", "f", "g", "h", "i", "j", "k", "l", "m", "n", "o", "p", "q", "r", "s", "t", "u", "v", "w", "x", "y", "z", "e_acute", "e_grave", "a_circ">>

\* str.lower() on one character
LowerChar(c) ==
    IF \E i \in 1..Len(UpperCase) : UpperCase[i] = c
    THEN LowerCase[CHOOSE i \in 1..Len(UpperCase) : UpperCase[i] = c]
    ELSE c

\* nom.lower()
Lower(s) == [i \in 1..Len(s) |-> LowerChar(s[i])]

\* m in s : m occurs in s as a contiguous substring
Occurs(m, s) ==
    \E k \in 0..(Len(s) - Len(m)) : \A i \in 1..Len(m) : s[k + i] = m[i]

\* ------------------------------------------------------------------------
\* Shelf categories (the emoji that prefixes each category name is dropped)
\* ------------------------------------------------------------------------
RAYONS ==
    <<
      [rayon |-> "Boucherie", mots |-> <<
          <<"b", "o", "e", "u", "f">>,
          <<"p", "o", "u", "l", "e", "t">>,
          <<"d", "i", "n", "d", "e">>,
          <<"p", "o", "r", "c">>,
          <<"j", "a", "m", "b", "o", "n">>,
          <<"l", "a", "r", "d", "o", "n">>,
          <<"s", "a", "u", "m", "o", "n">>,
          <<"p", "o", "i", "s", "s", "o", "n">>,
          <<"t", "h", "o", "n">>,
          <<"v", "i", "a", "n", "d", "e">>,
          <<"s", "t", "e", "a", "k">> >>],
      [rayon |-> "Fruits & Legumes", mots |-> <<
          <<"p", "o", "m", "m", "e">>,
          <<"t", "e", "r", "r", "e">>,
          <<"l", "e_acute", "g", "u", "m", "e">>,
          <<"b", "a", "n", "a", "n", "e">>,
          <<"a", "v", "o", "c", "a", "t">>,
          <<"c", "i", "t", "r", "o", "n">>,
          <<"s", "a", "l", "a", "d", "e">>,
          <<"t", "o", "m", "a", "t", "e">>,
          <<"o", "i", "g", "n", "o", "n">>,
          <<"c", "a", "r", "o", "t", "t", "e">>,
          <<"c", "o", "u", "r", "g", "e", "t", "t", "e">> >>],
      [rayon |-> "Cremerie", mots |-> <<
          <<"c", "r", "e_grave", "m", "e">>,
          <<"b", "e", "u", "r", "r", "e">>,
          <<"y", "a", "o", "u", "r", "t">>,
          <<"f", "r", "o", "m", "a", "g", "e">>,
          <<"l", "a", "i", "t">>,
          <<"o", "e", "u", "f">>,
          <<"s", "k", "y", "r">> >>],
      [rayon |-> "Epicerie", mots |-> <<
          <<"p", "a_circ", "t", "e", "s">>,
          <<"r", "i", "z">>,
          <<"p", "a", "i", "n">>,
          <<"f", "a", "r", "i", "n", "e">>,
          <<"s", "u", "c", "r", "e">>,
          <<"h", "u", "i", "l", "e">>,
          <<"s", "e", "l">>,
          <<"p", "o", "i", "v", "r", "e">>,
          <<"s", "a", "u", "c", "e">>,
          <<"c", "o", "n", "s", "e", "r", "v", "e">> >>]
    >>

Divers == "Divers"

\* the first category r with  any(m in nom.lower() for m in mots)
RECURSIVE detect_from(_, _)
detect_from(i, low) ==
    IF i > Len(RAYONS) THEN Divers
    ELSE IF \E j \in 1..Len(RAYONS[i].mots) : Occurs(RAYONS[i].mots[j], low)
         THEN RAYONS[i].rayon
         ELSE detect_from(i + 1, low)

\* detect_rayon without .lower()
detect_rayon_case_sensitive(nom) == detect_from(1, Chars(nom))

detect_rayon(nom) == detect_from(1, Lower(Chars(nom)))

\* ------------------------------------------------------------------------
\* Store: one JSON document per category in cell A1 of its worksheet.
\* A cell is [kind |-> "blank"] or [kind |-> "json", data |-> <the dict>].
\* json.dumps / json.loads change nothing in the values this program
\* writes (string keys, numbers, lists, dicts), so a document is its dict.
\* ------------------------------------------------------------------------
Keys == {"recettes", "plats", "planning", "journal", "poids", "garde_manger"}

Blank == [kind |-> "blank"]

Doc(d) == [kind |-> "json", data |-> d]

\* a stored pantry value of the legacy schema: a bare number
Bare(r) == [bare |-> r]

IsNumber(val) == "bare" \in DOMAIN val

Profile(k, p, g, l) == [kcal |-> k, prot |-> p, gluc |-> g, lip |-> l]

normalize_ingredient(val) ==
    IF IsNumber(val)
    THEN [kcal |-> PyInt(val.bare), prot |-> RZero, gluc |-> RZero, lip |-> RZero]
    ELSE val

\* fetch_from_cloud(key); failed: the read raised (caught, gives {})
fetch_from_cloud(cl, key, failed) ==
    IF failed THEN EmptyDict
    ELSE IF cl[key].kind = "blank" THEN EmptyDict
    ELSE IF key = "garde_manger"
         THEN [k \in DOMAIN cl[key].data |-> normalize_ingredient(cl[key].data[k])]
         ELSE cl[key].data

\* push_to_cloud(key, data); ok = FALSE: the write raised (caught, st.error)
push_to_cloud(cl, key, data, ok) ==
    IF ok THEN [cl EXCEPT ![key] = Doc(data)] ELSE cl

DEFAULTS_PANTRY ==
    ("Pates (Cru)" :> Profile(360, RInt(12), RInt(70), RInt(1))) @@
    ("Riz (Cru)"   :> Profile(350, RInt(7), RInt(78), Rat(1, 2))) @@
    ("Poulet"      :> Profile(110, RInt(23), RInt(0), RInt(1))) @@
    ("Oeuf"        :> Profile(140, RInt(13), RInt(1), RInt(10))) @@
    ("Huile"       :> Profile(900, RInt(0), RInt(0), RInt(100)))

\* the pantry init_state leaves in the session
InitPantry(cl, failed) ==
    LET p == fetch_from_cloud(cl, "garde_manger", "garde_manger" \in failed)
    IN  IF p = EmptyDict THEN DEFAULTS_PANTRY ELSE p

\* the store after init_state: the default pantry is pushed when the
\* fetched pantry is empty
InitCloud(cl, failed, ok) ==
    IF fetch_from_cloud(cl, "garde_manger", "garde_manger" \in failed) = EmptyDict
    THEN push_to_cloud(cl, "garde_manger", DEFAULTS_PANTRY, ok)
    ELSE cl

JOURS == <<"Lundi", "Mardi", "Mercredi", "Jeudi", "Vendredi", "Samedi", "Dimanche">>

MOMENTS == <<"Matin", "Midi", "Collation", "Soir">>

JoursSet == {JOURS[i] : i \in 1..Len(JOURS)}

\* ------------------------------------------------------------------------
\* Stored data a session can start from
\* ------------------------------------------------------------------------
\* one ingredient line of a recipe, as the builder writes it (V15)
Line(nom, poids, cal, infos) ==
    [nom |-> nom, poids |-> poids, cal |-> cal,
     prot |-> RMul(infos.prot, Rat(poids, 100)),
     gluc |-> RMul(infos.gluc, Rat(poids, 100)),
     lip  |-> RMul(infos.lip, Rat(poids, 100))]

\* a line written before macros existed (V14)
LegacyLine(nom, poids, cal) == [nom |-> nom, poids |-> poids, cal |-> cal]

\* tot_k, tot_p, tot_g, tot_l of the loop over the draft, from line i on
RECURSIVE Totals(_, _, _)
Totals(lines, i, acc) ==
    IF i > Len(lines) THEN acc
    ELSE LET x == lines[i]
         IN  Totals(lines, i + 1,
                    [total_cal  |-> acc.total_cal + x.cal,
                     total_prot |-> RAdd(acc.total_prot, Get(x, "prot", RZero)),
                     total_gluc |-> RAdd(acc.total_gluc, Get(x, "gluc", RZero)),
                     total_lip  |-> RAdd(acc.total_lip, Get(x, "lip", RZero))])

ZeroTotals ==
    [total_cal |-> 0, total_prot |-> RZero, total_gluc |-> RZero, total_lip |-> RZero]

\* Saved with the totals taken from the second line on
SavedSkippingFirst(lines) == Totals(lines, 2, ZeroTotals) @@ [ingredients |-> lines]

\* the recipe "Sauver" writes for the draft
Saved(lines) == Totals(lines, 1, ZeroTotals) @@ [ingredients |-> lines]

OeufInfos == Profile(140, RInt(13), RInt(1), RInt(10))

PouletInfos == Profile(110, RInt(23), RInt(0), RInt(1))

RizAuLaitInfos == Profile(120, RInt(3), RInt(20), RInt(3))

NoPlan == [j \in JoursSet |-> EmptyDict]

\* a fresh installation: every cell is blank
FreshCloud == [k \in Keys |-> Blank]

\* An installation used since V14: bare-number pantry values (one of them
\* not an integer), a recipe saved before macros existed and one saved
\* since, two containers, one planned meal, and a weigh-in and a meal of
\* the day before the session.
UsedCloud ==
    [recettes |-> Doc(
        ("Omelette" :>
            [total_cal |-> 300,
             ingredients |-> << LegacyLine("Oeuf", 200, 300),
                                LegacyLine("Oeuf", 100, 0) >>]) @@
        ("Poulet riz" :>
            Saved(<< Line("Poulet fermier", 200, 300, PouletInfos),
                     Line("Riz au lait", 100, 200, RizAuLaitInfos),
                     Line("Widget", 50, 0, Profile(150, RZero, RZero, RZero)),
                     Line("Oeuf", 100, 100, OeufInfos) >>))),
     plats |-> Doc(("Bol" :> 300) @@ ("Cocotte" :> 1200)),
     planning |-> Doc([NoPlan EXCEPT !["Lundi"] =
                        ("Matin" :> [recette |-> "Poulet riz", cible |-> 600])]),
     garde_manger |-> Doc(
        ("Poulet fermier" :> Bare(RInt(110))) @@
        ("Widget" :> Bare(Rat(301, 2))) @@
        ("Riz au lait" :> RizAuLaitInfos) @@
        ("Oeuf" :> OeufInfos)),
     journal |-> Doc((0 :> << [recette |-> "Omelette", poids |-> 250, kcal |-> 300,
                               prot |-> 0, gluc |-> 0, lip |-> 0] >>)),
     poids |-> Doc((0 :> RInt(80)))]

Worlds == {FreshCloud, UsedCloud}

\* which fetches of init_state fail
FailSets == {F \in SUBSET Keys : Cardinality(F) <= MaxFetchFailures}

\* ------------------------------------------------------------------------
\* Parts of every script run
\* ------------------------------------------------------------------------
\* cockpit: if today not in journal: journal[today] = []
EnsureToday(j, day) == IF day \in DOMAIN j THEN j ELSE Put(j, day, <<>>)

\* planning tab: if not planning: planning = {} (a local dict, the session's
\* stays as it is); for j in JOURS: if j not in planning: planning[j] = {}
PlanTail(p) ==
    IF p = EmptyDict THEN p ELSE [j \in JoursSet \cup DOMAIN p |-> Get(p, j, EmptyDict)]

\* sorted(list(recettes.keys())): the recipe names of the model, sorted
RecipeOrder ==
    << "Omelette", "Omelette (Copie)", "Poulet riz", "Poulet riz (Copie)", "Salade" >>

RecipeNames == {RecipeOrder[i] : i \in 1..Len(RecipeOrder)}

\* ls[0], the value a selectbox falls back to; None when there is no option
FirstRecipe(recs) ==
    IF DOMAIN recs = {} THEN None
    ELSE RecipeOrder[CHOOSE i \in 1..Len(RecipeOrder) :
            /\ RecipeOrder[i] \in DOMAIN recs
            /\ \A k \in 1..(i - 1) : RecipeOrder[k] \notin DOMAIN recs]

\* tg = None if md == "Nouvelle" else st.selectbox("Recette", ls, key="rt"):
\* the selectbox keeps its value while it is an option
FixTg(mode, t, recs) ==
    IF mode = "Nouvelle" THEN None
    ELSE IF t \in DOMAIN recs THEN t ELSE FirstRecipe(recs)

\* the draft a (mode, target) is seeded with
Seed(mode, t, recs) ==
    IF mode \in {"Modifier", "Dupliquer"} /\ t # None
    THEN recs[t].ingredients
    ELSE <<>>

\* 'ti' not in session_state or lm != md or lt != tg
MustSeed(mode, t, m0, t0) == mode # "Supprimer" /\ (m0 # mode \/ t0 # t)

\* What the script run that ends an interaction leaves: today's journal list,
\* the planning days, the recipe selectbox and the builder's draft.
RunTail(recs2, plan2, jour2, md2, tg2, ti2, lm2, lt2) ==
    LET t == FixTg(md2, tg2, recs2)
        reseed == MustSeed(md2, t, lm2, lt2)
    IN  /\ journal' = EnsureToday(jour2, today)
        /\ planning' = PlanTail(plan2)
        /\ md' = md2
        /\ tg' = t
        /\ ti' = IF reseed THEN Seed(md2, t, recs2) ELSE ti2
        /\ lm' = IF reseed THEN md2 ELSE lm2
        /\ lt' = IF reseed THEN t ELSE lt2

\* the run changes nothing of the builder, the plan or the journal but the tail
SameRun == RunTail(recettes, planning, journal, md, tg, ti, lm, lt)

\* ------------------------------------------------------------------------
\* Session start
\* ------------------------------------------------------------------------
\* init_state on store cl, then nothing rendered yet
Loaded(cl, failed, ok) ==
    /\ cloud = InitCloud(cl, failed, ok)
    /\ recettes = fetch_from_cloud(cl, "recettes", "recettes" \in failed)
    /\ plats_vides = fetch_from_cloud(cl, "plats", "plats" \in failed)
    /\ planning = fetch_from_cloud(cl, "planning", "planning" \in failed)
    /\ journal = fetch_from_cloud(cl, "journal", "journal" \in failed)
    /\ poids_data = fetch_from_cloud(cl, "poids", "poids" \in failed)
    /\ pantry = InitPantry(cl, failed)

InitFrom(W, F, OK) ==
    /\ \E cl \in W, failed \in F, ok \in OK : Loaded(cl, failed, ok)
    /\ ti = <<>>
    /\ lm = None
    /\ lt = None
    /\ md = "Nouvelle"
    /\ tg = None
    /\ today = 1
    /\ out = [kind |-> "start"]

Init == InitFrom(Worlds, FailSets, BOOLEAN)

\* ------------------------------------------------------------------------
\* Sidebar
\* ------------------------------------------------------------------------
\* "Synchro": every session key is deleted and the script reruns, so that
\* init_state loads the six documents again
Synchro(failed, ok) ==
    LET recs == fetch_from_cloud(cloud, "recettes", "recettes" \in failed)
    IN  /\ cloud' = InitCloud(cloud, failed, ok)
        /\ recettes' = recs
        /\ plats_vides' = fetch_from_cloud(cloud, "plats", "plats" \in failed)
        /\ poids_data' = fetch_from_cloud(cloud, "poids", "poids" \in failed)
        /\ pantry' = InitPantry(cloud, failed)
        /\ RunTail(recs,
                   fetch_from_cloud(cloud, "planning", "planning" \in failed),
                   fetch_from_cloud(cloud, "journal", "journal" \in failed),
                   "Nouvelle", None, <<>>, None, None)
        /\ out' = [kind |-> "Synchro"]
        /\ UNCHANGED today

\* "Reset Semaine"
ResetSemaine(ok1, ok2) ==
    /\ cloud' = push_to_cloud(push_to_cloud(cloud, "planning", EmptyDict, ok1),
                              "journal", EmptyDict, ok2)
    /\ RunTail(recettes, EmptyDict, EmptyDict, md, tg, ti, lm, lt)
    /\ out' = [kind |-> "ResetSemaine"]
    /\ UNCHANGED <<recettes, plats_vides, poids_data, pantry, today>>

\* a run in which no button is pressed (the first run of a session, or a
\* widget without a handler was changed)
Afficher ==
    /\ SameRun
    /\ out' = [kind |-> "Afficher"]
    /\ UNCHANGED <<cloud, recettes, plats_vides, poids_data, pantry, today>>

\* midnight passes: get_today_str() gives the next date
NextDay ==
    /\ today < MaxDay
    /\ today' = today + 1
    /\ out' = [kind |-> "NextDay"]
    /\ UNCHANGED <<cloud, recettes, plats_vides, planning, journal, poids_data,
                   pantry, ti, lm, lt, md, tg>>

\* ------------------------------------------------------------------------
\* Tab 1: cockpit
\* ------------------------------------------------------------------------
\* st.number_input("Poids Balance", 1000, step=10): 1000 is min_value
MinBalance == 1000

\* the entries of today's list, [] when the run has just created it
TodayList(j, day) == Get(j, day, <<>>)

\* "Express": Add
Express(xn, xk, xp, ok) ==
    LET e == [recette |-> xn, poids |-> 0, kcal |-> xk, prot |-> xp,
              gluc |-> 0, lip |-> 0]
        j2 == Put(journal, today, Append(TodayList(journal, today), e))
    IN  /\ Len(TodayList(journal, today)) < MaxJournal
        /\ cloud' = push_to_cloud(cloud, "journal", j2, ok)
        /\ RunTail(recettes, planning, j2, md, tg, ti, lm, lt)
        /\ out' = [kind |-> "Express"]
        /\ UNCHANGED <<recettes, plats_vides, poids_data, pantry, today>>

\* net_weight without the clamp at 0
net_weight_unclamped(tr, pa, pl, plats) ==
    IF tr /\ plats # EmptyDict THEN pa - plats[pl] ELSE pa

\* pn: the net weight; pl is the selected container (shown only when the
\* tare box is ticked and a container exists)
net_weight(tr, pa, pl, plats) ==
    IF tr /\ plats # EmptyDict
    THEN (IF pa - plats[pl] > 0 THEN pa - plats[pl] ELSE 0)
    ELSE pa

\* the guard written pn >= 0
PortionShownAtZero(pn) == pn >= 0

\* if pn > 0: the portion is computed and "Manger" is offered
PortionShown(pn) == pn > 0

\* Scale with the fat computed from the carbohydrate total
ScaleLipFromGluc(r_data, ob, pn) ==
    LET ct == r_data.total_cal
        ratio == Rat(ob, ct)
    IN  IF ct = 0
        THEN [status |-> "ZeroDivisionError"]
        ELSE [status |-> "ok",
              ratio |-> ratio,
              por |-> RMul(ratio, RInt(pn)),
              final_p |-> RMul(Get(r_data, "total_prot", RZero), ratio),
              final_g |-> RMul(Get(r_data, "total_gluc", RZero), ratio),
              final_l |-> RMul(Get(r_data, "total_gluc", RZero), ratio)]

\* ratio = ob / ct and what follows; ct = 0 raises ZeroDivisionError, which
\* nothing catches: the run ends there with Streamlit's exception box
Scale(r_data, ob, pn) ==
    LET ct == r_data.total_cal
        cp == Get(r_data, "total_prot", RZero)
    IN  IF ct = 0
        THEN [status |-> "ZeroDivisionError"]
        ELSE LET ratio == Rat(ob, ct)
             IN  [status |-> "ok",
                  ratio |-> ratio,
                  por |-> RMul(ratio, RInt(pn)),
                  final_p |-> RMul(cp, ratio),
                  final_g |-> RMul(Get(r_data, "total_gluc", RZero), ratio),
                  final_l |-> RMul(Get(r_data, "total_lip", RZero), ratio)]

\* the cockpit's column for the portion, on the widget values given
Cockpit(ch, tr, pa, pl, ob) ==
    LET pn == net_weight(tr, pa, pl, plats_vides)
        base == [kind |-> "cockpit", ch |-> ch, tr |-> tr, pa |-> pa, pl |-> pl,
                 ob |-> ob, ct |-> recettes[ch].total_cal, pn |-> pn,
                 logged |-> FALSE]
    IN  IF PortionShown(pn)
        THEN base @@ [shown |-> TRUE, res |-> Scale(recettes[ch], ob, pn)]
        ELSE base @@ [shown |-> FALSE, res |-> [status |-> "not weighed"]]

\* the widget values a user can have set
CockpitInputs(ch, tr, pa, pl) ==
    /\ ch \in DOMAIN recettes
    /\ pa >= MinBalance
    /\ IF tr /\ plats_vides # EmptyDict THEN pl \in DOMAIN plats_vides ELSE pl = None

\* the cockpit is shown for a choice of dish, tare, scale reading and target
Portionner(ch, tr, pa, pl, ob) ==
    LET c == Cockpit(ch, tr, pa, pl, ob)
    IN  /\ CockpitInputs(ch, tr, pa, pl)
        /\ out' = c
        /\ IF c.res.status = "ZeroDivisionError"
           THEN /\ journal' = EnsureToday(journal, today)
                /\ UNCHANGED <<planning, md, tg, ti, lm, lt>>
           ELSE SameRun
        /\ UNCHANGED <<cloud, recettes, plats_vides, poids_data, pantry, today>>

\* "Manger" is pressed under the portion shown
Manger(ch, tr, pa, pl, ob, ok) ==
    LET c == Cockpit(ch, tr, pa, pl, ob)
        e == [recette |-> ch, poids |-> PyInt(c.res.por), kcal |-> ob,
              prot |-> PyInt(c.res.final_p), gluc |-> PyInt(c.res.final_g),
              lip |-> PyInt(c.res.final_l)]
        j2 == Put(journal, today, Append(TodayList(journal, today), e))
    IN  /\ CockpitInputs(ch, tr, pa, pl)
        /\ c.shown
        /\ c.res.status = "ok"
        /\ Len(TodayList(journal, today)) < MaxJournal
        /\ cloud' = push_to_cloud(cloud, "journal", j2, ok)
        /\ RunTail(recettes, planning, j2, md, tg, ti, lm, lt)
        /\ out' = [c EXCEPT !.logged = TRUE]
        /\ UNCHANGED <<recettes, plats_vides, poids_data, pantry, today>>

\* The tabs after the cockpit are built only by a run the cockpit does not
\* end with ZeroDivisionError: there is no recipe, or a dish with calories
\* is selected, or the net weight is 0.
CockpitPasses ==
    \/ recettes = EmptyDict
    \/ \E ch \in DOMAIN recettes : recettes[ch].total_cal # 0
    \/ \E pl \in DOMAIN plats_vides : plats_vides[pl] >= MinBalance

\* ------------------------------------------------------------------------
\* Tab 2: Oracle
\* ------------------------------------------------------------------------
MinKey(d) == CHOOSE x \in DOMAIN d : \A y \in DOMAIN d : x <= y

MaxKey(d) == CHOOSE x \in DOMAIN d : \A y \in DOMAIN d : y <= x

\* value=p2-5 of "Objectif Poids (kg)"
DefaultLoss == 5

\* any speed but zero
LosingOrGaining(vitesse) == vitesse.num # 0

\* the speed "vitesse" is positive
Losing(vitesse) == RPos(vitesse)

\* What the Oracle tab shows for the weight log pd, the user leaving
\* "Objectif Poids" at p2 - 5 + delta.  divisors lists the divisor of every
\* division performed, in order.
Oracle(pd, delta) ==
    IF Cardinality(DOMAIN pd) < 2
    THEN [kind |-> "oracle", report |-> "need 2 weigh-ins", divisors |-> <<>>]
    ELSE LET d1 == MinKey(pd)
             d2 == MaxKey(pd)
             p1 == pd[d1]
             p2 == pd[d2]
             days == d2 - d1
         IN  IF days > 0
             THEN LET vitesse == RDiv(RSub(p1, p2), RInt(days))
                  IN  IF Losing(vitesse)
                      THEN LET obj_poids == RAdd(RSub(p2, RInt(DefaultLoss)), delta)
                               kg_restants == RSub(p2, obj_poids)
                               jours_restants == PyInt(RDiv(kg_restants, vitesse))
                           IN  [kind |-> "oracle", report |-> "projection",
                                days |-> days, vitesse |-> vitesse,
                                jours_restants |-> jours_restants,
                                date_fin |-> d2 + jours_restants,
                                divisors |-> <<RInt(days), vitesse>>]
                      ELSE [kind |-> "oracle", report |-> "hausse ou stable",
                            days |-> days, vitesse |-> vitesse,
                            divisors |-> <<RInt(days)>>]
             ELSE [kind |-> "oracle", report |-> "nothing", days |-> days,
                   divisors |-> <<>>]

\* the Oracle tab is looked at
Oracler(delta) ==
    /\ CockpitPasses
    /\ out' = Oracle(poids_data, delta)
    /\ SameRun
    /\ UNCHANGED <<cloud, recettes, plats_vides, poids_data, pantry, today>>

\* ------------------------------------------------------------------------
\* Tab 3: shopping list
\* ------------------------------------------------------------------------
\* sh and each list of sh_tri keep insertion order: sequences of
\* [nom, poids], one entry per name

HasNom(sh, nom) == \E i \in 1..Len(sh) : sh[i].nom = nom

\* ShAdd with = in the place of +=
ShAddOverwriting(sh, nom, poids) ==
    IF HasNom(sh, nom)
    THEN [i \in 1..Len(sh) |->
            IF sh[i].nom = nom THEN [nom |-> nom, poids |-> poids] ELSE sh[i]]
    ELSE Append(sh, [nom |-> nom, poids |-> poids])

\* sh[nom] = sh.get(nom, 0) + poids
ShAdd(sh, nom, poids) ==
    IF HasNom(sh, nom)
    THEN [i \in 1..Len(sh) |->
            IF sh[i].nom = nom THEN [nom |-> nom, poids |-> sh[i].poids + poids]
            ELSE sh[i]]
    ELSE Append(sh, [nom |-> nom, poids |-> poids])

\* for i in recettes[r]["ingredients"]: ...
RECURSIVE ShLines(_, _, _)
ShLines(sh, lines, i) ==
    IF i > Len(lines) THEN sh
    ELSE ShLines(ShAdd(sh, lines[i].nom, lines[i].poids), lines, i + 1)

\* if r in recettes
SlotCounts(r, recs) == r \in DOMAIN recs

\* the slot (j, m) of the k-th step of the two loops, k in 0..27
SlotJour(k) == JOURS[(k \div Len(MOMENTS)) + 1]

SlotMoment(k) == MOMENTS[(k % Len(MOMENTS)) + 1]

\* for j in planning: for m in planning[j]: ...   (a plan the program wrote
\* lists its days in the order of JOURS and its moments in that of MOMENTS)
RECURSIVE ShSlots(_, _, _, _)
ShSlots(sh, plan, recs, k) ==
    IF k >= Len(JOURS) * Len(MOMENTS) THEN sh
    ELSE LET j == SlotJour(k)
             m == SlotMoment(k)
         IN  IF j \in DOMAIN plan /\ m \in DOMAIN plan[j]
                /\ SlotCounts(plan[j][m].recette, recs)
             THEN ShSlots(ShLines(sh, recs[plan[j][m].recette].ingredients, 1),
                          plan, recs, k + 1)
             ELSE ShSlots(sh, plan, recs, k + 1)

Aggregate(plan, recs) == ShSlots(<<>>, plan, recs, 0)

\* if r not in sh_tri: sh_tri[r] = [] ; sh_tri[r].append((ing, poids))
TriAdd(sh_tri, item) ==
    LET r == detect_rayon(item.nom)
    IN  Put(sh_tri, r, Append(Get(sh_tri, r, <<>>), item))

RECURSIVE Partition(_, _, _)
Partition(sh_tri, sh, i) ==
    IF i > Len(sh) THEN sh_tri
    ELSE Partition(TriAdd(sh_tri, sh[i]), sh, i + 1)

\* "Generer PDF"
GenererPDF ==
    LET sh == Aggregate(planning, recettes)
    IN  /\ CockpitPasses
        /\ out' = [kind |-> "courses", sh |-> sh,
                   sh_tri |-> Partition(EmptyDict, sh, 1)]
        /\ SameRun
        /\ UNCHANGED <<cloud, recettes, plats_vides, poids_data, pantry, today>>

\* ------------------------------------------------------------------------
\* Tab 4: pantry
\* ------------------------------------------------------------------------
\* "Ajouter" on a result r of search_openfoodfacts
OffAjouter(nom, infos, ok) ==
    LET p2 == Put(pantry, nom, infos)
    IN  /\ CockpitPasses
        /\ pantry' = p2
        /\ cloud' = push_to_cloud(cloud, "garde_manger", p2, ok)
        /\ SameRun
        /\ out' = [kind |-> "OffAjouter"]
        /\ UNCHANGED <<recettes, plats_vides, poids_data, today>>

\* what the expander of product k shows: vals = normalize_ingredient(v)
PantryShown(k) == normalize_ingredient(pantry[k])

\* "Sauver" on product k with the four fields as edited
PantrySauver(k, infos, ok) ==
    LET p2 == Put(pantry, k, infos)
    IN  /\ CockpitPasses
        /\ k \in DOMAIN pantry
        /\ pantry' = p2
        /\ cloud' = push_to_cloud(cloud, "garde_manger", p2, ok)
        /\ SameRun
        /\ out' = [kind |-> "PantrySauver", k |-> k]
        /\ UNCHANGED <<recettes, plats_vides, poids_data, today>>

\* "Suppr" on product k
PantrySuppr(k, ok) ==
    LET p2 == Del(pantry, k)
    IN  /\ CockpitPasses
        /\ k \in DOMAIN pantry
        /\ pantry' = p2
        /\ cloud' = push_to_cloud(cloud, "garde_manger", p2, ok)
        /\ SameRun
        /\ out' = [kind |-> "PantrySuppr", k |-> k]
        /\ UNCHANGED <<recettes, plats_vides, poids_data, today>>

\* the pantry tab is looked at: every product is shown normalized
PantryVoir ==
    /\ CockpitPasses
    /\ out' = [kind |-> "pantry", shown |-> [k \in DOMAIN pantry |-> PantryShown(k)]]
    /\ SameRun
    /\ UNCHANGED <<cloud, recettes, plats_vides, poids_data, pantry, today>>

\* ------------------------------------------------------------------------
\* Tab 5: recipes
\* ------------------------------------------------------------------------
Modes == {"Nouvelle", "Modifier", "Dupliquer", "Supprimer"}

\* the radio "Mode" is changed
ChoisirMode(m) ==
    /\ CockpitPasses
    /\ m \in Modes
    /\ m # md
    /\ RunTail(recettes, planning, journal, m, tg, ti, lm, lt)
    /\ out' = [kind |-> "ChoisirMode"]
    /\ UNCHANGED <<cloud, recettes, plats_vides, poids_data, pantry, today>>

\* another recipe is picked in the selectbox "Recette"
ChoisirRecette(t) ==
    /\ CockpitPasses
    /\ md # "Nouvelle"
    /\ t \in DOMAIN recettes
    /\ t # tg
    /\ RunTail(recettes, planning, journal, md, t, ti, lm, lt)
    /\ out' = [kind |-> "ChoisirRecette"]
    /\ UNCHANGED <<cloud, recettes, plats_vides, poids_data, pantry, today>>

\* mode "Supprimer": "Confirmer" (with no recipe to select, del recettes[None]
\* raises KeyError and nothing changes)
Supprimer(ok) ==
    LET r2 == Del(recettes, tg)
    IN  /\ CockpitPasses
        /\ md = "Supprimer"
        /\ tg # None
        /\ recettes' = r2
        /\ cloud' = push_to_cloud(cloud, "recettes", r2, ok)
        /\ RunTail(r2, planning, journal, md, tg, ti, lm, lt)
        /\ out' = [kind |-> "Supprimer", rn |-> tg]
        /\ UNCHANGED <<plats_vides, poids_data, pantry, today>>

\* the line "+" appends for ingredient ni, weight np and the Kcal field nk
\* (which upd pre-fills with int(kcal * np / 100) and the user may edit)
NewLine(ni, np, nk) ==
    LET infos == normalize_ingredient(pantry[ni])
        factor == Rat(np, 100)
    IN  [nom |-> ni, poids |-> np, cal |-> nk,
         prot |-> RMul(infos.prot, factor),
         gluc |-> RMul(infos.gluc, factor),
         lip  |-> RMul(infos.lip, factor)]

\* "+"
AddLine(ni, np, nk) ==
    /\ CockpitPasses
    /\ md # "Supprimer"
    /\ ni \in DOMAIN pantry
    /\ Len(ti) < MaxLines
    /\ RunTail(recettes, planning, journal, md, tg, Append(ti, NewLine(ni, np, nk)), lm, lt)
    /\ out' = [kind |-> "AddLine"]
    /\ UNCHANGED <<cloud, recettes, plats_vides, poids_data, pantry, today>>

\* the bin of line i (1-based here): ti.pop(rdl); st.rerun()
RemoveLine(i) ==
    /\ CockpitPasses
    /\ md # "Supprimer"
    /\ i \in 1..Len(ti)
    /\ RunTail(recettes, planning, journal, md, tg, Pop(ti, i), lm, lt)
    /\ out' = [kind |-> "RemoveLine"]
    /\ UNCHANGED <<cloud, recettes, plats_vides, poids_data, pantry, today>>

\* "Nom": disabled and equal to tg in mode "Modifier", free otherwise
NameAllowed(rn) ==
    /\ rn # None
    /\ md = "Modifier" => rn = tg

\* "Sauver" under the draft, the name field holding rn
SaveRecipe(rn, ok) ==
    LET r2 == Put(recettes, rn, Saved(ti))
    IN  /\ CockpitPasses
        /\ md # "Supprimer"
        /\ NameAllowed(rn)
        /\ recettes' = r2
        /\ cloud' = push_to_cloud(cloud, "recettes", r2, ok)
        /\ RunTail(r2, planning, journal, md, tg, <<>>, lm, lt)
        /\ out' = [kind |-> "SaveRecipe", rn |-> rn]
        /\ UNCHANGED <<plats_vides, poids_data, pantry, today>>

\* ------------------------------------------------------------------------
\* Tab 6: planning
\* ------------------------------------------------------------------------
Rien == "(Rien)"

\* np of the form's "Sauver": choix maps a slot <<j, m>> to the
\* {"recette", "cible"} of its widgets; a slot left at "(Rien)" is absent
NewPlan(choix) ==
    [j \in JoursSet |->
        [m \in {mm \in {MOMENTS[i] : i \in 1..Len(MOMENTS)} :
                    <<j, mm>> \in DOMAIN choix /\ choix[<<j, mm>>].recette # Rien}
            |-> choix[<<j, m>>]]]

PlanningSauver(choix, ok) ==
    LET np == NewPlan(choix)
    IN  /\ CockpitPasses
        /\ \A s \in DOMAIN choix :
              choix[s].recette = Rien \/ choix[s].recette \in DOMAIN recettes
        /\ cloud' = push_to_cloud(cloud, "planning", np, ok)
        /\ RunTail(recettes, np, journal, md, tg, ti, lm, lt)
        /\ out' = [kind |-> "PlanningSauver"]
        /\ UNCHANGED <<recettes, plats_vides, poids_data, pantry, today>>

\* ------------------------------------------------------------------------
\* Tab 7: body weight
\* ------------------------------------------------------------------------
PoidsSauver(w, ok) ==
    LET p2 == Put(poids_data, today, w)
    IN  /\ CockpitPasses
        /\ RPos(w)
        /\ poids_data' = p2
        /\ cloud' = push_to_cloud(cloud, "poids", p2, ok)
        /\ SameRun
        /\ out' = [kind |-> "PoidsSauver"]
        /\ UNCHANGED <<recettes, plats_vides, pantry, today>>

\* ------------------------------------------------------------------------
\* Tab 8: containers
\* ------------------------------------------------------------------------
PlatAjouter(pn, pw, ok) ==
    LET p2 == Put(plats_vides, pn, pw)
    IN  /\ CockpitPasses
        /\ pw >= 0
        /\ plats_vides' = p2
        /\ cloud' = push_to_cloud(cloud, "plats", p2, ok)
        /\ SameRun
        /\ out' = [kind |-> "PlatAjouter"]
        /\ UNCHANGED <<recettes, poids_data, pantry, today>>

PlatX(k, ok) ==
    LET p2 == Del(plats_vides, k)
    IN  /\ CockpitPasses
        /\ k \in DOMAIN plats_vides
        /\ plats_vides' = p2
        /\ cloud' = push_to_cloud(cloud, "plats", p2, ok)
        /\ SameRun
        /\ out' = [kind |-> "PlatX"]
        /\ UNCHANGED <<recettes, poids_data, pantry, today>>

\* ------------------------------------------------------------------------
\* The values the modelled user enters
\* ------------------------------------------------------------------------
Balances == {1000}

Objectifs == {0, 300, 600}

PlatNames == {"Bol", "Cocotte"}

PlatWeights == {300, 1200}

LineWeights == {150}

LineKcals == {300}

LineNoms == {"Oeuf"}

BodyWeights == {RInt(78), RInt(80), Rat(163, 2)}

Deltas == {RZero, RInt(6)}

OffResults == {"Boeuf hache"}

EditedInfos == {Profile(150, Rat(5, 2), RInt(10), RInt(2))}

PlanMoments == {MOMENTS[i] : i \in 1..1}

PlanSlots == {<<JOURS[i], m>> : i \in 1..MaxPlanDays, m \in PlanMoments}

Cibles == {600}

\* what one slot's widgets can hold: lr = ["(Rien)"] + sorted(recettes.keys())
SlotChoices(recs) ==
    {[recette |-> Rien, cible |-> 0]} \cup
    {[recette |-> r, cible |-> c] : r \in DOMAIN recs, c \in Cibles}

Choix(recs) == [PlanSlots -> SlotChoices(recs)]

Containers == PlatNames \cup {None}

\* ------------------------------------------------------------------------
\* The application
\* ------------------------------------------------------------------------
Next ==
    \/ Afficher
    \/ NextDay
    \/ \E failed \in FailSets, ok \in BOOLEAN : Synchro(failed, ok)
    \/ \E ok1 \in BOOLEAN, ok2 \in BOOLEAN : ResetSemaine(ok1, ok2)
    \/ \E ok \in BOOLEAN : Express("Snack", 100, 5, ok)
    \/ \E ch \in RecipeNames, tr \in BOOLEAN, pa \in Balances, pl \in Containers,
          ob \in Objectifs :
            \/ Portionner(ch, tr, pa, pl, ob)
            \/ \E ok \in BOOLEAN : Manger(ch, tr, pa, pl, ob, ok)
    \/ \E delta \in Deltas : Oracler(delta)
    \/ GenererPDF
    \/ PantryVoir
    \/ \E nom \in OffResults, infos \in EditedInfos, ok \in BOOLEAN :
            OffAjouter(nom, infos, ok)
    \/ \E k \in DOMAIN pantry, ok \in BOOLEAN :
            \/ \E infos \in EditedInfos : PantrySauver(k, infos, ok)
            \/ PantrySuppr(k, ok)
    \/ \E m \in Modes : ChoisirMode(m)
    \/ \E t \in RecipeNames : ChoisirRecette(t)
    \/ \E ok \in BOOLEAN : Supprimer(ok)
    \/ \E ni \in LineNoms, np \in LineWeights, nk \in LineKcals : AddLine(ni, np, nk)
    \/ \E i \in 1..(MaxLines + 1) : RemoveLine(i)
    \/ \E rn \in RecipeNames, ok \in BOOLEAN : SaveRecipe(rn, ok)
    \/ \E choix \in Choix(recettes), ok \in BOOLEAN : PlanningSauver(choix, ok)
    \/ \E w \in BodyWeights, ok \in BOOLEAN : PoidsSauver(w, ok)
    \/ \E pn \in PlatNames, pw \in PlatWeights, ok \in BOOLEAN : PlatAjouter(pn, pw, ok)
    \/ \E k \in PlatNames, ok \in BOOLEAN : PlatX(k, ok)

Spec == Init /\ [][Next]_vars

\* ------------------------------------------------------------------------
\* Spec is the whole application; the specifications below are the same
\* actions on the tabs one feature uses, the other tabs left alone, every
\* store access succeeding unless stated.
\* ------------------------------------------------------------------------
InitOk == InitFrom(Worlds, {{}}, {TRUE})

\* the cockpit and the containers
NextCockpit ==
    \/ Afficher
    \/ Express("Snack", 100, 5, TRUE)
    \/ \E ch \in RecipeNames, tr \in BOOLEAN, pa \in Balances, pl \in Containers,
          ob \in Objectifs :
            \/ Portionner(ch, tr, pa, pl, ob)
            \/ Manger(ch, tr, pa, pl, ob, TRUE)
    \/ \E pw \in PlatWeights : PlatAjouter("Bol", pw, TRUE)
    \/ \E k \in PlatNames : PlatX(k, TRUE)

SpecCockpit == InitOk /\ [][NextCockpit]_vars

\* the recipe builder, and the cockpit on the recipes it saves
NextRecettes ==
    \/ \E m \in {"Nouvelle", "Modifier", "Dupliquer"} : ChoisirMode(m)
    \/ \E t \in {"Omelette", "Salade"} : ChoisirRecette(t)
    \/ \E ni \in LineNoms, np \in LineWeights, nk \in LineKcals : AddLine(ni, np, nk)
    \/ \E i \in 1..MaxLines : RemoveLine(i)
    \/ \E rn \in {"Omelette", "Salade"} : SaveRecipe(rn, TRUE)
    \/ \E ch \in {"Omelette", "Salade"}, pa \in Balances, ob \in {600} :
            Portionner(ch, FALSE, pa, None, ob)

SpecRecettes == InitOk /\ [][NextRecettes]_vars


\* the planning, the deletion of recipes and the shopping list
NextCourses ==
    \/ \E choix \in Choix(recettes) : PlanningSauver(choix, TRUE)
    \/ ChoisirMode("Supprimer")
    \/ \E t \in RecipeNames : ChoisirRecette(t)
    \/ Supprimer(TRUE)
    \/ GenererPDF

SpecCourses == InitOk /\ [][NextCourses]_vars


\* the weight log over the days and the Oracle
NextOracle ==
    \/ NextDay
    \/ \E w \in BodyWeights : PoidsSauver(w, TRUE)
    \/ \E delta \in Deltas : Oracler(delta)

SpecOracle == InitOk /\ [][NextOracle]_vars

\* the pantry tab over a store that may hold legacy values, the read of the
\* pantry document failing or not
PantryFails == {{}, {"garde_manger"}}

NextPantry ==
    \/ \E failed \in PantryFails : Synchro(failed, TRUE)
    \/ PantryVoir
    \/ \E nom \in OffResults, infos \in EditedInfos : OffAjouter(nom, infos, TRUE)
    \/ \E k \in {"Widget", "Oeuf"}, infos \in EditedInfos : PantrySauver(k, infos, TRUE)
    \/ \E k \in {"Widget", "Poulet fermier"} : PantrySuppr(k, TRUE)

InitLegacy == InitFrom(Worlds, PantryFails, {TRUE})

SpecPantry == InitLegacy /\ [][NextPantry]_vars

\* a session on the used store, some reads of init_state failing, in which
\* the user only adds: a snack, a weigh-in, a container
InitDegraded == InitFrom({UsedCloud}, FailSets, BOOLEAN)

NextDegraded ==
    \/ Afficher
    \/ \E ok \in BOOLEAN : Express("Snack", 100, 5, ok)
    \/ \E w \in BodyWeights, ok \in BOOLEAN : PoidsSauver(w, ok)
    \/ \E pw \in PlatWeights, ok \in BOOLEAN : PlatAjouter("Assiette", pw, ok)

SpecDegraded == InitDegraded /\ [][NextDegraded]_vars

\* ------------------------------------------------------------------------
\* Properties of the cockpit
\* ------------------------------------------------------------------------
\* the rational a equals n / d  (d > 0)
IsQuotient(a, n, d) == a.num * d = n * a.den

\* the rational a equals b * n / d  (d > 0)
IsScaled(a, b, n, d) == a.num * b.den * d = b.num * n * a.den

\* the macro total x of the dish shown, 0 when the recipe has none
MacroTotal(x) == IF x \in DOMAIN recettes[out.ch] THEN recettes[out.ch][x] ELSE RZero

\* C2: for a dish with total_kcal > 0, a target >= 0 and a net weight
\* W > 0 the scaler uses the one ratio target / total_kcal: the serve weight
\* is ratio * W and each delivered macro is the recipe's total times that
\* ratio; at target = total_kcal the serve weight is W and the macros are
\* the recipe's totals.
C2_UniformRatio ==
    (out.kind = "cockpit" /\ out.ct > 0 /\ out.ob >= 0 /\ out.pn > 0) =>
        /\ out.res.status = "ok"
        /\ IsQuotient(out.res.ratio, out.ob, out.ct)
        /\ IsQuotient(out.res.por, out.ob * out.pn, out.ct)
        /\ IsScaled(out.res.final_p, MacroTotal("total_prot"), out.ob, out.ct)
        /\ IsScaled(out.res.final_g, MacroTotal("total_gluc"), out.ob, out.ct)
        /\ IsScaled(out.res.final_l, MacroTotal("total_lip"), out.ob, out.ct)
        /\ out.ob = out.ct =>
              /\ out.res.por = RInt(out.pn)
              /\ out.res.final_p = MacroTotal("total_prot")
              /\ out.res.final_g = MacroTotal("total_gluc")
              /\ out.res.final_l = MacroTotal("total_lip")

\* a dish with macros is scaled at a target that is not its total
C2_Witness ==
    /\ out.kind = "cockpit"
    /\ out.pn = 700
    /\ out.ob = 300
    /\ out.ct = 600
    /\ out.res.status = "ok"
    /\ out.res.por = RInt(350)
    /\ out.res.final_l = Rat(15, 2)

\* C3: with the tare box ticked and a container selected the net weight is
\* max(0, gross - tare): gross - tare when gross >= tare, 0 when gross <
\* tare, never negative; without tare or without any container it is the
\* gross weight.
C3_NetWeight ==
    out.kind = "cockpit" =>
        /\ out.pn >= 0
        /\ (out.tr /\ plats_vides # EmptyDict) =>
              /\ out.pl \in DOMAIN plats_vides
              /\ out.pa >= plats_vides[out.pl] => out.pn = out.pa - plats_vides[out.pl]
              /\ out.pa < plats_vides[out.pl] => out.pn = 0
        /\ (~out.tr \/ plats_vides = EmptyDict) => out.pn = out.pa

\* the container weighs more than the scale shows
C3_Witness ==
    /\ out.kind = "cockpit"
    /\ out.tr
    /\ out.pl \in DOMAIN plats_vides
    /\ out.pa < plats_vides[out.pl]
    /\ out.pn = 0

\* C4: while the net weight is 0 the cockpit's scaling path neither
\* appends a journal entry nor writes the journal to the store: a step of
\* that path that changes today's entries or the stored journal has a
\* positive net weight.
C4_NoLogAtZero ==
    [][(/\ out'.kind = "cockpit"
        /\ \/ TodayList(journal', today') # TodayList(journal, today)
           \/ cloud'.journal # cloud.journal)
       => (out'.pn > 0 /\ out'.logged)]_vars

\* the cockpit is shown at net weight 0 and nothing has been logged
C4_Witness ==
    /\ out.kind = "cockpit"
    /\ out.pn = 0
    /\ ~out.shown
    /\ ~out.logged
    /\ TodayList(journal, today) = <<>>

\* ------------------------------------------------------------------------
\* Properties of the recipe builder
\* ------------------------------------------------------------------------
\* C1: scaling a portion against a recipe whose total_kcal is 0 fails with
\* an InvalidRecipe error and never divides target_kcal by total_kcal.
C1_InvalidRecipe ==
    (out.kind = "cockpit" /\ out.ct = 0 /\ out.pn > 0) =>
        out.res.status = "InvalidRecipe"

RECURSIVE SumCal(_)
SumCal(lines) ==
    IF lines = <<>> THEN 0 ELSE Head(lines).cal + SumCal(Tail(lines))

RECURSIVE SumMacro(_, _)
SumMacro(lines, x) ==
    IF lines = <<>> THEN RZero
    ELSE RAdd(IF x \in DOMAIN Head(lines) THEN Head(lines)[x] ELSE RZero,
              SumMacro(Tail(lines), x))

\* the totals of recipe r are the sums over the lines stored with it
TotalsAreSums(r) ==
    /\ DOMAIN r = {"total_cal", "total_prot", "total_gluc", "total_lip", "ingredients"}
    /\ r.total_cal = SumCal(r.ingredients)
    /\ r.total_prot = SumMacro(r.ingredients, "prot")
    /\ r.total_gluc = SumMacro(r.ingredients, "gluc")
    /\ r.total_lip = SumMacro(r.ingredients, "lip")

\* C9: after any sequence of add-line, remove-line and save, the recipe a
\* save has just written has total_kcal equal to the sum of the kcal of
\* exactly the lines stored with it and each macro total equal to the sum
\* of that macro over those lines, a line without macros counting as 0;
\* in the session and in the stored document.
C9_TotalsAreSums ==
    out.kind = "SaveRecipe" =>
        /\ out.rn \in DOMAIN recettes
        /\ TotalsAreSums(recettes[out.rn])
        /\ cloud.recettes = Doc(recettes)

\* a recipe seeded from a stored one, one line removed, one added, saved:
\* its first line is a line without macros
C9_Witness ==
    /\ out.kind = "SaveRecipe"
    /\ out.rn = "Omelette"
    /\ Len(recettes["Omelette"].ingredients) = 2
    /\ "prot" \notin DOMAIN recettes["Omelette"].ingredients[1]
    /\ recettes["Omelette"].total_cal = 600
    /\ recettes["Omelette"].total_prot = Rat(39, 2)

\* ------------------------------------------------------------------------
\* Properties of the shopping list
\* ------------------------------------------------------------------------
MomentsSet == {MOMENTS[i] : i \in 1..Len(MOMENTS)}

\* the planned slots, and those whose recipe exists
PlannedSlots ==
    {s \in JoursSet \X MomentsSet :
        s[1] \in DOMAIN planning /\ s[2] \in DOMAIN planning[s[1]]}

SlotRecipe(s) == planning[s[1]][s[2]].recette

LiveSlots == {s \in PlannedSlots : SlotRecipe(s) \in DOMAIN recettes}

\* the weight recipe r lists for ingredient n, over the lines in I
RECURSIVE LineWeight(_, _, _)
LineWeight(r, n, I) ==
    IF I = {} THEN 0
    ELSE LET i == CHOOSE k \in I : TRUE
         IN  (IF recettes[r].ingredients[i].nom = n
              THEN recettes[r].ingredients[i].poids ELSE 0)
             + LineWeight(r, n, I \ {i})

RecipeWeight(r, n) == LineWeight(r, n, DOMAIN recettes[r].ingredients)

\* the sum of ingredient n over the slots S, a recipe counted once per slot
RECURSIVE SlotsWeight(_, _)
SlotsWeight(n, S) ==
    IF S = {} THEN 0
    ELSE LET s == CHOOSE x \in S : TRUE
         IN  RecipeWeight(SlotRecipe(s), n) + SlotsWeight(n, S \ {s})

\* ingredient n is on a line of a recipe of a live slot
Listed(n) ==
    \E s \in LiveSlots : \E i \in DOMAIN recettes[SlotRecipe(s)].ingredients :
        recettes[SlotRecipe(s)].ingredients[i].nom = n

AllNoms ==
    UNION {{recettes[r].ingredients[i].nom :
                i \in DOMAIN recettes[r].ingredients} : r \in DOMAIN recettes} \cup
    {out.sh[i].nom : i \in 1..Len(out.sh)}

\* C5: the shopping list holds exactly the ingredients listed by the recipes
\* of the planned slots whose recipe exists, each name once, with the sum of
\* its weights, a recipe planned in several slots counted once per slot; a
\* slot whose recipe was deleted adds nothing.
C5_ShoppingSums ==
    out.kind = "courses" =>
        \A n \in AllNoms :
            /\ Cardinality({i \in 1..Len(out.sh) : out.sh[i].nom = n})
                   = (IF Listed(n) THEN 1 ELSE 0)
            /\ \A i \in 1..Len(out.sh) :
                   out.sh[i].nom = n => out.sh[i].poids = SlotsWeight(n, LiveSlots)

\* a list from a plan with one recipe in two slots and a deleted recipe in a
\* third: 2 * (200 + 100) g of "Oeuf", and nothing else
C5_Witness ==
    /\ out.kind = "courses"
    /\ \E s \in PlannedSlots : SlotRecipe(s) = "Poulet riz"
    /\ "Poulet riz" \notin DOMAIN recettes
    /\ Cardinality({s \in LiveSlots : SlotRecipe(s) = "Omelette"}) = 2
    /\ out.sh = <<[nom |-> "Oeuf", poids |-> 600]>>

\* the categories of RAYONS in their order
RayonNames == [i \in 1..Len(RAYONS) |-> RAYONS[i].rayon]

\* a keyword of category i occurs in the lower-cased name
Matches(i, n) ==
    \E k \in 1..Len(RAYONS[i].mots) : Occurs(RAYONS[i].mots[k], Lower(Chars(n)))

\* the first category that matches, "Divers" when none does
Expected(n) ==
    IF \E i \in 1..Len(RAYONS) : Matches(i, n)
    THEN RayonNames[CHOOSE i \in 1..Len(RAYONS) :
                        Matches(i, n) /\ \A h \in 1..(i - 1) : ~Matches(h, n)]
    ELSE Divers

\* the places (category, position) of the partition
Places(sh_tri) ==
    UNION {{<<r, k>> : k \in 1..Len(sh_tri[r])} : r \in DOMAIN sh_tri}

\* C6: each aggregated ingredient is in exactly one category list, with its
\* weight, and that category is the first one of RAYONS a keyword of which
\* occurs in the lower-cased name, "Divers" when there is none; the lists
\* hold nothing else.
C6_OneCategory ==
    out.kind = "courses" =>
        /\ \A i \in 1..Len(out.sh) :
              /\ Cardinality({p \in Places(out.sh_tri) :
                                 out.sh_tri[p[1]][p[2]].nom = out.sh[i].nom}) = 1
              /\ \E k \in 1..Len(Get(out.sh_tri, Expected(out.sh[i].nom), <<>>)) :
                     out.sh_tri[Expected(out.sh[i].nom)][k] = out.sh[i]
        /\ Cardinality(Places(out.sh_tri)) = Len(out.sh)
        /\ \A r \in DOMAIN out.sh_tri : out.sh_tri[r] # <<>>

\* "Poulet fermier" under Boucherie, "Riz au lait" under Cremerie although
\* Epicerie has "riz", "Widget" under Divers
C6_Witness ==
    /\ out.kind = "courses"
    /\ \E k \in 1..Len(Get(out.sh_tri, "Boucherie", <<>>)) :
           out.sh_tri["Boucherie"][k].nom = "Poulet fermier"
    /\ \E k \in 1..Len(Get(out.sh_tri, "Cremerie", <<>>)) :
           out.sh_tri["Cremerie"][k].nom = "Riz au lait"
    /\ \E k \in 1..Len(Get(out.sh_tri, Divers, <<>>)) :
           out.sh_tri[Divers][k].nom = "Widget"

\* ------------------------------------------------------------------------
\* Properties of the Oracle
\* ------------------------------------------------------------------------
\* the days between the earliest and the latest sample of the weight log
days_between ==
    IF poids_data = EmptyDict THEN 0
    ELSE MaxKey(poids_data) - MinKey(poids_data)

\* (first weight - last weight) / days_between, for days_between # 0
rate_per_day ==
    LET lost == RSub(poids_data[MinKey(poids_data)], poids_data[MaxKey(poids_data)])
    IN  [num |-> lost.num, den |-> lost.den * days_between]

\* C7: the Oracle shows a projection only for samples more than 0 days apart
\* and a positive rate per day; with 0 days between the samples it asks for
\* more weigh-ins and divides by nothing; with a rate <= 0 it reports the
\* trend as rising or stable, without a projection, and has divided by the
\* days only; no divisor is ever zero and the rate it divides by is positive.
C7_OracleGuards ==
    out.kind = "oracle" =>
        /\ out.report \in {"need 2 weigh-ins", "projection", "hausse ou stable"}
        /\ out.report = "projection" =>
              /\ days_between > 0
              /\ rate_per_day.num > 0
              /\ out.divisors = <<RInt(days_between), out.vitesse>>
        /\ days_between = 0 =>
              (out.report = "need 2 weigh-ins" /\ out.divisors = <<>>)
        /\ (days_between > 0 /\ rate_per_day.num <= 0) =>
              /\ out.report = "hausse ou stable"
              /\ "jours_restants" \notin DOMAIN out
              /\ out.divisors = <<RInt(days_between)>>
        /\ days_between > 0 =>
              out.vitesse.num * rate_per_day.den = rate_per_day.num * out.vitesse.den
        /\ \A i \in 1..Len(out.divisors) : out.divisors[i].num # 0

\* two samples one day apart with the same weight: the rate is 0 and the
\* Oracle reports the stable trend
C7_Witness ==
    /\ out.kind = "oracle"
    /\ Cardinality(DOMAIN poids_data) >= 2
    /\ days_between = 1
    /\ out.vitesse = RZero
    /\ out.report = "hausse ou stable"

\* ------------------------------------------------------------------------
\* Properties of the ingredient normalizer
\* ------------------------------------------------------------------------
IsProfile(val) == DOMAIN val = {"kcal", "prot", "gluc", "lip"}

\* the values of the stored pantry document
StoredValues ==
    IF cloud["garde_manger"].kind = "blank" THEN {}
    ELSE {cloud["garde_manger"].data[k] : k \in DOMAIN cloud["garde_manger"].data}

\* a bare number n becomes {kcal: n, prot: 0, gluc: 0, lip: 0}
BareKeepsValue(val) ==
    LET r == normalize_ingredient(val)
    IN  /\ IsProfile(r)
        /\ RInt(r.kcal) = val.bare
        /\ r.prot = RZero /\ r.gluc = RZero /\ r.lip = RZero

\* the buttons of the pantry tab that save
ExplicitSaves == {"OffAjouter", "PantrySauver", "PantrySuppr"}

\* every value read from the store, kept in the session or shown is a result
\* of normalize_ingredient
NormalizedOnRead ==
    /\ \A v \in StoredValues :
          /\ IsNumber(v) => BareKeepsValue(v)
          /\ IsProfile(v) => normalize_ingredient(v) = v
          /\ normalize_ingredient(normalize_ingredient(v)) = normalize_ingredient(v)
    /\ \A k \in DOMAIN pantry : IsProfile(pantry[k])
    /\ out.kind = "pantry" => \A k \in DOMAIN out.shown : IsProfile(out.shown[k])

\* C8: a bare number n is normalized to {kcal: n, 0, 0, 0}, a profile is
\* returned unchanged, normalizing twice is normalizing once, every read of
\* the pantry normalizes, and the stored pantry document changes only in a
\* step that is an explicit save.
C8_NormalizeOnRead ==
    /\ []NormalizedOnRead
    /\ [][cloud'["garde_manger"] # cloud["garde_manger"]
              => out'.kind \in ExplicitSaves]_vars

\* ------------------------------------------------------------------------
\* Properties of the store
\* ------------------------------------------------------------------------
\* the collection a stored document holds, an empty cell holding none
Stored(key) == IF cloud[key].kind = "blank" THEN EmptyDict ELSE cloud[key].data

\* the stored pantry as a read gives it
StoredPantry ==
    [k \in DOMAIN Stored("garde_manger") |->
        normalize_ingredient(Stored("garde_manger")[k])]

\* the last step was a user action that wrote to the store
WroteLast ==
    \/ out.kind \in {"Express", "PlatAjouter", "PlatX"}
    \/ out.kind = "cockpit" /\ out.logged

\* C10: after each completed user action whose store write succeeds, the
\* stored document of every category equals the in-memory collection of that
\* category (the pantry document as normalized by a read).
C10_WrittenBack ==
    WroteLast =>
        /\ Stored("recettes") = recettes
        /\ Stored("plats") = plats_vides
        /\ Stored("planning") = planning
        /\ Stored("journal") = journal
        /\ Stored("poids") = poids_data
        /\ StoredPantry = pantry

\* ------------------------------------------------------------------------
\* Properties of the builder's draft
\* ------------------------------------------------------------------------
\* the step enters mode m (on another target, for the modes that have one)
Enters(m) == md' = m /\ (md # m \/ tg # tg')

\* the step is a "Sauver" of the builder that leaves it in mode m
SavesIn(m) == out'.kind = "SaveRecipe" /\ md = m /\ md' = m

\* C11: entering mode "Modifier" on a recipe R, and saving in that mode,
\* leave the draft equal to the stored lines of R, so that a second save
\* right after a save leaves R as it is; entering mode "Nouvelle", and saving
\* in it, leave the draft empty.
C11_DraftSeeded ==
    [][/\ (Enters("Modifier") /\ tg' # None) => ti' = recettes'[tg'].ingredients
       /\ (SavesIn("Modifier") /\ tg' # None) => ti' = recettes'[tg'].ingredients
       /\ (SavesIn("Modifier") /\ out.kind = "SaveRecipe" /\ tg = tg')
              => recettes'[tg] = recettes[tg]
       /\ Enters("Nouvelle") => ti' = <<>>
       /\ SavesIn("Nouvelle") => ti' = <<>>]_vars

\* ------------------------------------------------------------------------
\* Properties of a session after failed reads
\* ------------------------------------------------------------------------
\* every entry of document key of store cl is in the stored document, as it was
Kept(cl, key) ==
    cl[key].kind = "json" =>
        \A k \in DOMAIN cl[key].data :
            k \in DOMAIN Stored(key) /\ Stored(key)[k] = cl[key].data[k]

\* C12: in a session started on the used store, whatever reads failed, and
\* in which the user deletes and resets nothing, every entry the six stored
\* documents had at session start is still stored.
C12_StoredDataKept == \A key \in Keys : Kept(UsedCloud, key)

====
